---- MODULE Spec2Model ----
(***************************************************************************)
(* A model of gcn/train.py: the graph-convolution layers, the inner-product *)
(* decoder, the evaluator get_roc_score and the training script that        *)
(* drives them.                                                             *)
(*                                                                          *)
(* Floating-point tensors are modelled as matrices (sequences of rows) of   *)
(* integers, with one extra value NaN that stands for every non-finite      *)
(* float (NaN, +Inf, -Inf).  A sparse tensor is a matrix whose stored       *)
(* entries are exactly its nonzero entries.                                 *)
(***************************************************************************)
EXTENDS Integers, Sequences, FiniteSets, TLC

\* ------------------------------------------------------------------ bounds
\* Largest number of epochs the flag `epochs' is drawn from (-1 .. MaxEpochs).
MaxEpochs == 2
\* Entries of the matrices the layer tests are run on lie in -MaxVal .. MaxVal.
MaxVal == 1
\* Largest number of evaluator calls made besides the script's own.
MaxExtraCalls == 2

\* ------------------------------------------------------------ variables
\* The layer tests: where the test is, the layer under test, the weights
\* handed to set_weights, the input the layer was called on and the result.
VARIABLES tpc, tlayer, tinstalled, tinput, toutput

testVars == <<tpc, tlayer, tinstalled, tinput, toutput>>

\* The training script.
VARIABLES
    pc,                 \* the position of the script
    FLAGS_epochs,       \* FLAGS.epochs
    FLAGS_dropout,      \* FLAGS.dropout, in percent
    adj, adj_train,     \* what load_data returned
    val_edges, val_edges_false, test_edges, test_edges_false,
    num_nodes, num_edges, features, adj_orig, adj_norm, adj_label,
    weights,            \* the session's value of the two layers' vars['weights']
    init_weights,       \* the value global_variables_initializer gave them
    feed_dict,          \* the one feed dictionary shared by training and evaluation
    epoch,              \* the loop variable of line 326
    num_updates,        \* how many times opt.opt_op has been run
    last_run,           \* what the last sess.run was called with and computed
    metric_args,        \* the arguments of the last roc_auc_score call, and the
                        \* lengths of the edge lists they were built from
    trace,              \* the steps taken so far
    extra_calls,        \* evaluator calls made besides the script's own
    err                 \* the exception that ended the run, if any

flagVars == <<FLAGS_epochs, FLAGS_dropout>>
dataVars == <<adj, adj_train, val_edges, val_edges_false, test_edges, test_edges_false>>
prepVars == <<num_nodes, num_edges, features, adj_orig, adj_norm, adj_label>>
runVars == <<pc, flagVars, dataVars, prepVars, weights, init_weights, feed_dict,
             epoch, num_updates, last_run, metric_args, trace, extra_calls, err>>
vars == <<runVars, testVars>>

\* --------------------------------------------------------- float values
\* The one non-finite value (what tf.debugging.check_numerics looks for).
NaN == -999

IsFinite(x) == x # NaN

VAdd(a, b) == IF a = NaN \/ b = NaN THEN NaN ELSE a + b

VMul(a, b) == IF a = NaN \/ b = NaN THEN NaN ELSE a * b

RECURSIVE VSum(_)
VSum(s) == IF s = <<>> THEN 0 ELSE VAdd(Head(s), VSum(Tail(s)))

\* ------------------------------------------------------------- matrices
\* The vector <<F(1), ..., F(n)>> and the r x c matrix of the F(i, j), as
\* tuples (concatenation makes the model checker compute them once).
Vec(n, F(_)) == [k \in 1..n |-> F(k)] \o <<>>

Mat(r, c, F(_, _)) == Vec(r, LAMBDA i : Vec(c, LAMBDA j : F(i, j)))

NumRows(M) == Len(M)

NumCols(M) == IF Len(M) = 0 THEN 0 ELSE Len(M[1])

AllFinite(M) == \A i \in 1..NumRows(M) : \A j \in 1..NumCols(M) : IsFinite(M[i][j])

\* tf.transpose
Transpose(M) == Mat(NumCols(M), NumRows(M), LAMBDA j, i : M[i][j])

\* tf.matmul: dense times dense, every product is formed (0 * NaN = NaN).
MatMul(A, B) ==
    Mat(NumRows(A), NumCols(B),
        LAMBDA i, j : VSum(Vec(NumCols(A), LAMBDA k : VMul(A[i][k], B[k][j]))))

\* tf.sparse_tensor_dense_matmul: only the stored (nonzero) entries of the
\* sparse left operand take part in the sum.
SparseDenseMatMul(S, B) ==
    Mat(NumRows(S), NumCols(B),
        LAMBDA i, j : VSum(Vec(NumCols(S),
            LAMBDA k : IF S[i][k] = 0 THEN 0 ELSE VMul(S[i][k], B[k][j]))))

\* tf.reshape(x, [-1]): row-major flattening.
Flatten(M) ==
    Vec(NumRows(M) * NumCols(M),
        LAMBDA p : M[((p - 1) \div NumCols(M)) + 1][((p - 1) % NumCols(M)) + 1])

\* ----------------------------------------------------------- activations
Relu(x) == IF x = NaN THEN NaN ELSE IF x > 0 THEN x ELSE 0

\* act is "relu" (tf.nn.relu) or "identity" (lambda x: x)
Act(act, M) ==
    Mat(NumRows(M), NumCols(M),
        LAMBDA i, j : IF act = "relu" THEN Relu(M[i][j]) ELSE M[i][j])

\* --------------------------------------------------------------- dropout
\* A dropout rate is given in percent; keep = 100 - rate.  mask[i][j] = 1
\* keeps an entry, 0 drops it (the random draw of the library).

\* x / keep_prob with keep_prob = keep / 100
Rescale(x, keep) ==
    IF x = NaN \/ keep = 0 THEN NaN ELSE (x * 100) \div keep

\* tf.nn.dropout(x, keep_prob): x / keep_prob * floor(keep_prob + uniform).
\* With keep_prob = 1 the mask is all ones and x comes back unchanged; with
\* keep_prob = 0 the quotient is non-finite and its product with 0 is NaN.
tf_nn_dropout(x, keep, mask) ==
    Mat(NumRows(x), NumCols(x),
        LAMBDA i, j :
            IF keep = 100 THEN x[i][j]
            ELSE VMul(Rescale(x[i][j], keep), IF keep = 0 THEN 0 ELSE mask[i][j]))

\* gcn.utils.dropout_sparse(x, keep_prob, num_nonzero_elems): the stored
\* entries the mask keeps, rescaled by 1 / keep_prob; the others are removed
\* from the sparse tensor (keep_prob = 0 keeps none).
dropout_sparse(x, keep, mask) ==
    Mat(NumRows(x), NumCols(x),
        LAMBDA i, j :
            IF x[i][j] = 0 THEN 0
            ELSE IF keep = 100 THEN x[i][j]
            ELSE IF keep = 0 \/ mask[i][j] = 0 THEN 0
            ELSE Rescale(x[i][j], keep))

\* The mask that keeps everything.
Ones(x) == Mat(NumRows(x), NumCols(x), LAMBDA i, j : 1)

\* The mask that drops the rows in dropped.
RowMask(x, dropped) ==
    Mat(NumRows(x), NumCols(x), LAMBDA i, j : IF i \in dropped THEN 0 ELSE 1)

\* ---------------------------------------------------------------- layers
\* GraphConvolutionSparse.__call__: the pre-activation x of line 88.
GraphConvolutionSparse_pre(inputs, W, A, dropout, mask) ==
    LET x1 == dropout_sparse(inputs, 100 - dropout, mask)
        x2 == SparseDenseMatMul(x1, W)
    IN  SparseDenseMatMul(A, x2)

\* GraphConvolutionSparse.__call__: outputs.
GraphConvolutionSparse_call(inputs, W, A, dropout, mask, act) ==
    Act(act, GraphConvolutionSparse_pre(inputs, W, A, dropout, mask))

\* GraphConvolution.__call__
GraphConvolution_call(inputs, W, A, dropout, mask, act) ==
    LET x1 == tf_nn_dropout(inputs, 100 - dropout, mask)
        x2 == MatMul(x1, W)
        x3 == SparseDenseMatMul(A, x2)
    IN  Act(act, x3)

\* InnerProductDecoder.__call__ with the product taken the other way round
\* (transpose(inputs) times inputs).
InnerProductDecoder_gram(inputs, dropout, mask, act) ==
    LET x0 == tf_nn_dropout(inputs, 100 - dropout, mask)
        x1 == Transpose(x0)
        x2 == MatMul(x1, x0)
        x3 == Flatten(x2)
    IN  Act(act, <<x3>>)[1]

\* InnerProductDecoder.__call__
InnerProductDecoder_call(inputs, dropout, mask, act) ==
    LET x0 == tf_nn_dropout(inputs, 100 - dropout, mask)
        x1 == Transpose(x0)
        x2 == MatMul(x0, x1)
        x3 == Flatten(x2)
    IN  Act(act, <<x3>>)[1]

\* ======================================================================
\* The layer tests (class TestLayer): a layer is constructed, its W
\* are installed with set_weights, and it is called once on an input.
\* ======================================================================
\* Number of nodes of the graphs the tests are run on: shape (3, 3).
NumTestNodes == 3
\* Width of the generic test inputs (the embeddings of test_decoder have 2 columns).
TestWidth == 2

\* All r x c matrices over the set vals.
Matrices(r, c, vals) == [1..r -> [1..c -> vals]]

Identity(n) == Mat(n, n, LAMBDA i, j : IF i = j THEN 1 ELSE 0)

\* sparse_adj of test_propagate_node_state and test_apply_convolution
TestAdj == <<<<0, 1, 0>>, <<1, 0, 0>>, <<0, 0, 0>>>>
\* W of test_propagate_node_state
TestWeightsSparse == <<<<1, 0>>, <<0, 1>>, <<0, 0>>>>
\* W and node_state of test_apply_convolution
TestWeightsDense == <<<<0, 1>>, <<1, 0>>>>
TestNodeStateDense == <<<<1, 0>>, <<1, 0>>, <<0, 0>>>>
\* embeddings of test_decoder
TestEmbeddings == <<<<0, 1>>, <<0, 1>>, <<0, 0>>>>

\* The adjacencies the layers are tried on: the tests' own, the same with
\* self-loops, a path with one weighted edge and self-loops, the empty graph.
TestAdjSet ==
    { TestAdj,
      <<<<1, 1, 0>>, <<1, 1, 0>>, <<0, 0, 1>>>>,
      <<<<1, 2, 0>>, <<2, 1, 1>>, <<0, 1, 1>>>>,
      <<<<0, 0, 0>>, <<0, 0, 0>>, <<0, 0, 0>>>> }

\* Inputs X: every 0/1 matrix of the test width, and the identity features.
TestInputSet ==
    Matrices(NumTestNodes, TestWidth, {0, 1}) \cup {Identity(NumTestNodes)}

\* Weights W: every square matrix of the test width over -MaxVal .. MaxVal,
\* and the 3 x 2 W of test_propagate_node_state.
TestWeightSet ==
    Matrices(TestWidth, TestWidth, (-MaxVal)..MaxVal) \cup {TestWeightsSparse}

\* Embeddings Z handed to the decoder.
TestEmbeddingSet == Matrices(NumTestNodes, TestWidth, (-MaxVal)..MaxVal)

\* What weight_variable_glorot may leave in vars['weights'] before set_weights.
GlorotSet(r, c) == Matrices(r, c, {-1}) \cup Matrices(r, c, {1})

NoLayer == [kind |-> "none"]

TestInit ==
    /\ tpc = "new"
    /\ tlayer = NoLayer
    /\ tinstalled = <<>>
    /\ tinput = <<>>
    /\ toutput = <<>>

\* GraphConvolutionSparse.__init__ (as called by test_propagate_node_state:
\* dropout=0., act=tf.nn.relu).
NewGraphConvolutionSparse(A, w0) ==
    /\ tpc = "new"
    /\ tlayer' = [kind |-> "sparse", weights |-> w0, adj |-> A,
                  dropout |-> 0, act |-> "relu"]
    /\ tpc' = "constructed"
    /\ UNCHANGED <<tinstalled, tinput, toutput, runVars>>

\* GraphConvolution.__init__ (as called by test_apply_convolution).
NewGraphConvolution(A, w0) ==
    /\ tpc = "new"
    /\ tlayer' = [kind |-> "dense", weights |-> w0, adj |-> A,
                  dropout |-> 0, act |-> "relu"]
    /\ tpc' = "constructed"
    /\ UNCHANGED <<tinstalled, tinput, toutput, runVars>>

\* InnerProductDecoder.__init__ (as called by test_decoder and by
\* GCNModel.build: dropout=0., act=lambda x: x).
NewInnerProductDecoder ==
    /\ tpc = "new"
    /\ tlayer' = [kind |-> "decoder", dropout |-> 0, act |-> "identity"]
    /\ tpc' = "weighted"
    /\ UNCHANGED <<tinstalled, tinput, toutput, runVars>>

\* set_weights that leaves vars['weights'] as it was.
InstallWeightsKeepsOld(old, W) == old

\* The new value of vars['weights'] after set_weights(W).
InstallWeights(old, W) == W

\* GraphConvolutionSparse.set_weights / GraphConvolution.set_weights
set_weights(W) ==
    /\ tpc = "constructed"
    /\ tlayer.kind \in {"sparse", "dense"}
    /\ tlayer' = [tlayer EXCEPT !.weights = InstallWeights(@, W)]
    /\ tinstalled' = W
    /\ tpc' = "weighted"
    /\ UNCHANGED <<tinput, toutput, runVars>>

\* result = gcs(node_state), for either convolution layer.  With dropout 0
\* the keep probability is 1 and the mask keeps everything.
CallLayer(x) ==
    /\ tpc = "weighted"
    /\ tlayer.kind \in {"sparse", "dense"}
    /\ NumCols(x) = NumRows(tlayer.weights)
    /\ tinput' = x
    /\ toutput' =
         IF tlayer.kind = "sparse"
         THEN GraphConvolutionSparse_call(x, tlayer.weights, tlayer.adj,
                                          tlayer.dropout, Ones(x), tlayer.act)
         ELSE GraphConvolution_call(x, tlayer.weights, tlayer.adj,
                                    tlayer.dropout, Ones(x), tlayer.act)
    /\ tpc' = "called"
    /\ UNCHANGED <<tlayer, tinstalled, runVars>>

\* result = decoder(embeddings)
CallDecoder(z) ==
    /\ tpc = "weighted"
    /\ tlayer.kind = "decoder"
    /\ tinput' = z
    /\ toutput' = InnerProductDecoder_call(z, tlayer.dropout, Ones(z), tlayer.act)
    /\ tpc' = "called"
    /\ UNCHANGED <<tlayer, tinstalled, runVars>>

\* The arguments a test has to choose from when it stands at position at.
ArgsAt(at, S) == IF tpc = at THEN S ELSE {}

TestNext ==
    \/ \E A \in ArgsAt("new", TestAdjSet), w0 \in GlorotSet(NumTestNodes, NumTestNodes) :
         NewGraphConvolutionSparse(A, w0)
    \/ \E A \in ArgsAt("new", TestAdjSet), w0 \in GlorotSet(NumTestNodes, NumTestNodes) :
         NewGraphConvolution(A, w0)
    \/ NewInnerProductDecoder
    \/ \E w \in ArgsAt("constructed", TestWeightSet) : set_weights(w)
    \/ \E x \in ArgsAt("weighted", TestInputSet) : CallLayer(x)
    \/ \E z \in ArgsAt("weighted", TestEmbeddingSet) : CallDecoder(z)

\* ======================================================================
\* The training script (lines 273-344).  Nodes are numbered from 1 here
\* (node k of the script is node k + 1); an edge is a pair <<i, j>>.
\* ======================================================================
\* ----------------------------------------------------------- small helpers
\* The symmetric 0/1 matrix of an edge set (each edge stored in both directions).
AdjOf(n, edges) ==
    Mat(n, n, LAMBDA i, j : IF <<i, j>> \in edges \/ <<j, i>> \in edges THEN 1 ELSE 0)

MatAdd(A, B) == Mat(NumRows(A), NumCols(A), LAMBDA i, j : VAdd(A[i][j], B[i][j]))

\* adj - dia_matrix(adj.diagonal()), then eliminate_zeros (lines 290-291)
StripDiagonal(A) ==
    Mat(NumRows(A), NumCols(A), LAMBDA i, j : IF i = j THEN 0 ELSE A[i][j])

\* adj.sum()
MatSum(A) == VSum(Vec(NumRows(A), LAMBDA i : VSum(A[i])))

\* gcn.utils.sym_normalize_matrix: D^(-1/2) A D^(-1/2).  Its entries are
\* positive reals exactly where A is nonzero; the model keeps that sparsity
\* pattern and writes 1 for each stored entry.
sym_normalize_matrix(A) ==
    Mat(NumRows(A), NumCols(A), LAMBDA i, j : IF A[i][j] = 0 THEN 0 ELSE 1)

EmptyDict == [k \in {} |-> 0]

\* dict.update({key: value})
DictUpdate(d, key, value) ==
    [k \in (DOMAIN d) \cup {key} |-> IF k = key THEN value ELSE d[k]]

SeqRange(s) == {s[i] : i \in 1..Len(s)}

\* ------------------------------------------------------------- the inputs
\* What load_data may return: a 4-node graph, one validation and one test
\* edge removed from the training adjacency, and as many sampled non-edges.
DataSet(n, edges, v, vf, t, tf) ==
    [adj |-> AdjOf(n, edges), adj_train |-> AdjOf(n, edges \ (SeqRange(v) \cup SeqRange(t))),
     val_edges |-> v, val_edges_false |-> vf, test_edges |-> t, test_edges_false |-> tf]

PathDataSet ==
    DataSet(4, {<<1, 2>>, <<2, 3>>, <<3, 4>>},
            <<<<1, 2>>>>, <<<<1, 3>>>>, <<<<3, 4>>>>, <<<<2, 4>>>>)

DataSets ==
    { PathDataSet,
      DataSet(4, {<<1, 2>>, <<1, 3>>, <<1, 4>>, <<2, 3>>},
              <<<<1, 4>>>>, <<<<2, 4>>>>, <<<<2, 3>>>>, <<<<3, 4>>>>),
      DataSet(4, {<<1, 2>>, <<2, 3>>, <<3, 4>>, <<1, 4>>},
              <<<<2, 3>>>>, <<<<1, 3>>>>, <<<<1, 4>>>>, <<<<2, 4>>>>) }

\* The dropout rates the flag is drawn from: 0, one half, and the invalid 1.
DropoutRates == {0, 50, 100}

\* The values a weight may take in a run.
WeightValues == {-1, 1, NaN}

\* weight_variable_glorot(input_dim, output_dim): some finite nonzero weights.
\* The run is modelled with hidden1 = hidden2 = 1.
InitWeightSet(n) ==
    { [W1 |-> Mat(n, 1, LAMBDA i, j : v), W2 |-> <<<<v>>>>] : v \in {-1, 1} }

NoWeights == [W1 |-> <<>>, W2 |-> <<>>]

NoRun == [fetch |-> "none"]

NoMetricArgs == [labels |-> <<>>, preds |-> <<>>, n_pos |-> 0, n_neg |-> 0, called |-> FALSE]

\* -------------------------------------------------- the computation graph
\* The tensors each op of the graph reads (GCNModel.build, the layers'
\* __call__, Optimizer.__init__).  check_numerics reads the pre-activation
\* of the sparse layer; its result is assigned to nothing, so no op reads it.
OpInputs(op) ==
    CASE op = "hidden1_pre"     -> {"features", "dropout", "W1", "adj"}
      [] op = "check_numerics"  -> {"hidden1_pre"}
      [] op = "hidden1"         -> {"hidden1_pre"}
      [] op = "embeddings"      -> {"hidden1", "dropout", "W2", "adj"}
      [] op = "reconstructions" -> {"embeddings"}
      [] op = "labels"          -> {"adj_orig"}
      [] op = "cost"            -> {"reconstructions", "labels"}
      [] op = "opt_op"          -> {"cost", "W1", "W2"}
      [] OTHER                  -> {}

\* The ops sess.run executes for a set of fetches: the fetches and all they
\* depend on.
RECURSIVE Needed(_)
Needed(ops) ==
    LET more == ops \cup UNION {OpInputs(op) : op \in ops}
    IN  IF more = ops THEN ops ELSE Needed(more)

\* Whether a sess.run of these fetches executes the check_numerics op.
CheckNumericsRuns(fetches) == "check_numerics" \in Needed(fetches)

\* The value the dropout placeholder has in a run: the fed one, else the
\* default of placeholder_with_default(0., shape=()).
FedDropout(fd) == IF "dropout" \in DOMAIN fd THEN fd["dropout"] ELSE 0

\* The one element of a one-element set: Only({e}) = e.  The stages of a
\* computation are bound with it, "x \in {e}", so that each is computed once.
Only(S) == CHOOSE x \in S : TRUE

\* One forward pass of GCNModel.build under feed dictionary fd, with the
\* random draws m1 (sparse dropout) and m2 (dense dropout) as sets of
\* dropped rows: hidden1 (its pre-activation too), embeddings, reconstructions.
Forward(fd, w, m1, m2) ==
    Only({ Only({ Only({ Only({
        [hidden1_pre |-> pre, hidden1 |-> h1, embeddings |-> emb, reconstructions |-> rec] :
          rec \in {InnerProductDecoder_call(emb, 0, Ones(emb), "identity")} }) :
          emb \in {GraphConvolution_call(h1, w.W2, fd["adj"], FedDropout(fd),
                                         RowMask(h1, m2), "identity")} }) :
          h1  \in {Act("relu", pre)} }) :
          pre \in {GraphConvolutionSparse_pre(fd["features"], w.W1, fd["adj"],
                                              FedDropout(fd),
                                              RowMask(fd["features"], m1))} })

\* The sets of rows a dropout draw may drop: none at rate 0, all at rate 1.
Draws(fd, n) ==
    IF FedDropout(fd) = 0 THEN {{}}
    ELSE IF FedDropout(fd) = 100 THEN {1..n}
    ELSE SUBSET (1..n)

\* Whether the weighted cross-entropy of these logits is finite.
CostFinite(rec) == \A p \in 1..Len(rec) : IsFinite(rec[p])

\* What sess.run(fetches) raises: InvalidArgumentError from check_numerics
\* when that op is executed on a non-finite tensor, else nothing.
SessRunError(fetches, f) ==
    IF CheckNumericsRuns(fetches) /\ ~AllFinite(f.hidden1_pre)
    THEN "NumericalInstability" ELSE "none"

\* The weights one Adam step (tf.train.AdamOptimizer.minimize) may leave.
\* The optimizer is a library: any weights may result, a weight may overflow
\* to a non-finite value, and a non-finite weight stays non-finite.  If the
\* cost is not finite, the gradient of the dense layer's weights is not
\* finite either and those weights become NaN.
AdamStep(w, costFinite) ==
    { nw \in [W1 : Matrices(NumRows(w.W1), 1, WeightValues),
              W2 : Matrices(1, 1, WeightValues)] :
        /\ \A i \in 1..NumRows(w.W1) : w.W1[i][1] = NaN => nw.W1[i][1] = NaN
        /\ (w.W2[1][1] = NaN \/ ~costFinite) => nw.W2[1][1] = NaN }

\* ------------------------------------------------------------ the evaluator
\* sigmoid(x) = 1 / (1 + exp(-x)), in tenths, rounded.
Sigmoid(x) ==
    IF x = NaN THEN NaN
    ELSE IF x <= -3 THEN 0
    ELSE IF x = -2 THEN 1
    ELSE IF x = -1 THEN 3
    ELSE IF x = 0 THEN 5
    ELSE IF x = 1 THEN 7
    ELSE IF x = 2 THEN 9
    ELSE 10

Repeat(v, n) == Vec(n, LAMBDA k : v)

\* An evaluator that also writes the stripped labels back into the dictionary.
EvalFeedWritesLabels(fd) ==
    DictUpdate(DictUpdate(fd, "dropout", 0), "adj_orig", StripDiagonal(fd["adj_orig"]))

\* line 39: feed_dict.update({placeholders['dropout']: 0})
EvalFeed(fd) == DictUpdate(fd, "dropout", 0)

\* lines 47-57: the predictions of a list of edges
EdgePreds(adj_rec, edges) ==
    Vec(Len(edges), LAMBDA k : Sigmoid(adj_rec[edges[k][1]][edges[k][2]]))

\* line 60: np.hstack([np.ones(len(preds)), np.zeros(len(preds))])
labels_all(preds, preds_neg) == Repeat(1, Len(preds)) \o Repeat(0, Len(preds))

\* roc_auc_score / average_precision_score (sklearn) raise ValueError when
\* the two arrays differ in length, when a prediction is not finite, and when
\* the labels hold fewer than two classes.
MetricsError(labels, preds) ==
    \/ Len(labels) # Len(preds)
    \/ \E k \in 1..Len(preds) : ~IsFinite(preds[k])
    \/ ~(\E k \in 1..Len(labels) : labels[k] = 1)
    \/ ~(\E k \in 1..Len(labels) : labels[k] = 0)

\* Lines 46-64 of get_roc_score, given what sess.run computed (f) and raised:
\* the arguments handed to the metrics and the exception the call ends with.
Score(f, runErr, edges_pos, edges_neg) ==
    Only({ Only({ Only({
        [args   |-> IF runErr # "none" THEN NoMetricArgs
                    ELSE [labels |-> labels_all(preds, preds_neg),
                          preds |-> preds \o preds_neg,
                          n_pos |-> Len(edges_pos), n_neg |-> Len(edges_neg),
                          called |-> TRUE],
         raised |-> IF runErr # "none" THEN runErr
                    ELSE IF MetricsError(labels_all(preds, preds_neg), preds \o preds_neg)
                         THEN "ValueError"
                    ELSE "none"] :
          preds_neg \in {EdgePreds(adj_rec, edges_neg)} }) :
          preds     \in {EdgePreds(adj_rec, edges_pos)} }) :
          adj_rec   \in {MatMul(f.embeddings, Transpose(f.embeddings))} })

\* get_roc_score(edges_pos, edges_neg), entered with feed dictionary fd and
\* weights w: the feed dictionary it leaves, the run it makes, the arguments
\* it hands to the metrics, and the exception it ends with.
get_roc_score(fd, w, edges_pos, edges_neg) ==
    Only({ Only({
        [feed   |-> fd1,
         run    |-> [fetch |-> "embeddings", dropout |-> FedDropout(fd1),
                     h1_finite |-> AllFinite(f.hidden1_pre)],
         args   |-> Score(f, SessRunError({"embeddings"}, f), edges_pos, edges_neg).args,
         raised |-> Score(f, SessRunError({"embeddings"}, f), edges_pos, edges_neg).raised] :
          f   \in {Forward(fd1, w, {}, {})} }) :
          fd1 \in {EvalFeed(fd)} })

\* ------------------------------------------------------------- the script
\* The state at line 273: the flags are parsed and the data set is the one
\* load_data will return.
InitWith(epochsSet, dropoutSet, dataSets) ==
    /\ pc = "start"
    /\ FLAGS_epochs \in epochsSet
    /\ FLAGS_dropout \in dropoutSet
    /\ \E d \in dataSets :
         /\ adj = d.adj
         /\ adj_train = d.adj_train
         /\ val_edges = d.val_edges
         /\ val_edges_false = d.val_edges_false
         /\ test_edges = d.test_edges
         /\ test_edges_false = d.test_edges_false
    /\ num_nodes = 0
    /\ num_edges = 0
    /\ features = <<>>
    /\ adj_orig = <<>>
    /\ adj_norm = <<>>
    /\ adj_label = <<>>
    /\ weights = NoWeights
    /\ init_weights = NoWeights
    /\ feed_dict = EmptyDict
    /\ epoch = 0
    /\ num_updates = 0
    /\ last_run = NoRun
    /\ metric_args = NoMetricArgs
    /\ trace = <<>>
    /\ extra_calls = 0
    /\ err = "none"

RunInit == InitWith((-1)..MaxEpochs, DropoutRates, DataSets)

\* construct_feed_dict(adj_normalized, adj, features, placeholders)
construct_feed_dict(adj_normalized, adj_, features_) ==
    LET d1 == DictUpdate(EmptyDict, "features", features_)
        d2 == DictUpdate(d1, "adj", adj_normalized)
    IN  DictUpdate(d2, "adj_orig", adj_)

\* adj_label without the identity added.
AdjLabelNoEye(adjTrain) == adjTrain

\* Line 296: adj_label = adj_train + sp.eye(adj_train.shape[0])
AdjLabel(adjTrain) == MatAdd(adjTrain, Identity(NumRows(adjTrain)))

\* Lines 277-296: the sizes, the identity features, adj_orig, adj_norm, adj_label.
Prepare ==
    /\ pc = "start"
    /\ num_nodes' = NumRows(adj)
    /\ num_edges' = MatSum(adj)
    /\ features' = Identity(NumRows(adj))
    /\ adj_orig' = StripDiagonal(adj)
    /\ adj_norm' = sym_normalize_matrix(MatAdd(adj_train, Identity(NumRows(adj))))
    /\ adj_label' = AdjLabel(adj_train)
    /\ pc' = "prepared"
    /\ UNCHANGED <<flagVars, dataVars, weights, init_weights, feed_dict, epoch,
                   num_updates, last_run, metric_args, trace, extra_calls, err, testVars>>

\* Lines 299-316: the placeholders, GCNModel and Optimizer are built.
BuildModel ==
    /\ pc = "prepared"
    /\ pc' = "built"
    /\ UNCHANGED <<flagVars, dataVars, prepVars, weights, init_weights, feed_dict,
                   epoch, num_updates, last_run, metric_args, trace, extra_calls, err, testVars>>

\* Lines 318-321: the session starts and the variables get their initial values.
StartSession ==
    /\ pc = "built"
    /\ \E w \in InitWeightSet(num_nodes) :
         /\ weights' = w
         /\ init_weights' = w
    /\ trace' = Append(trace, "Init")
    /\ pc' = "session"
    /\ UNCHANGED <<flagVars, dataVars, prepVars, feed_dict, epoch, num_updates,
                   last_run, metric_args, extra_calls, err, testVars>>

\* Line 313: the labels of the loss, tf.reshape(tf.sparse_tensor_to_dense(
\* placeholders['adj_orig']), [-1]), under feed dictionary fd.
LossLabels(fd) == Flatten(fd["adj_orig"])

\* Line 324: feed_dict = construct_feed_dict(adj_norm, adj_label, features, placeholders)
ConstructFeedDict ==
    /\ pc = "session"
    /\ feed_dict' = construct_feed_dict(adj_norm, adj_label, features)
    /\ pc' = "loop"
    /\ UNCHANGED <<flagVars, dataVars, prepVars, weights, init_weights, epoch,
                   num_updates, last_run, metric_args, trace, extra_calls, err, testVars>>

\* A loop test that lets one epoch too many through.
LoopContinuesOneMore(e, n) == e <= n

\* Line 326: whether range(FLAGS.epochs) has another element.
LoopContinues(e, n) == e < n

\* Setting the dropout entry only when the dictionary has none yet.
TrainFeedSetDefault(fd, rate) ==
    IF "dropout" \in DOMAIN fd THEN fd ELSE DictUpdate(fd, "dropout", rate)

\* Line 328: feed_dict.update({placeholders['dropout']: FLAGS.dropout})
TrainFeed(fd, rate) == DictUpdate(fd, "dropout", rate)

\* Lines 326-328: the loop goes on, and the dropout entry is set for training.
EpochBegin ==
    /\ pc = "loop"
    /\ LoopContinues(epoch, FLAGS_epochs)
    /\ feed_dict' = TrainFeed(feed_dict, FLAGS_dropout)
    /\ pc' = "train"
    /\ UNCHANGED <<flagVars, dataVars, prepVars, weights, init_weights, epoch,
                   num_updates, last_run, metric_args, trace, extra_calls, err, testVars>>

\* An optimizer op that applies its update twice.
UpdatesTwice == 1 + 1

\* The number of weight updates one run of opt.opt_op applies.
UpdatesPerRun == 1

\* Line 330: _, avg_cost = sess.run([opt.opt_op, opt.cost], feed_dict=feed_dict)
TrainStep ==
    /\ pc = "train"
    /\ \E o \in UNION { { [h1_finite |-> AllFinite(f.hidden1_pre),
                             cost_finite |-> CostFinite(f.reconstructions),
                             raised |-> SessRunError({"opt_op", "cost"}, f)] :
                            f \in {Forward(feed_dict, weights, m1, m2)} } :
                          m1 \in Draws(feed_dict, num_nodes),
                          m2 \in Draws(feed_dict, num_nodes) } :
         /\ last_run' = [fetch |-> "opt_op", dropout |-> FedDropout(feed_dict),
                         h1_finite |-> o.h1_finite]
         /\ IF o.raised # "none"
            THEN /\ err' = o.raised
                 /\ pc' = "error"
                 /\ trace' = Append(trace, "ForwardPass")
                 /\ UNCHANGED <<weights, num_updates>>
            ELSE /\ \E nw \in AdamStep(weights, o.cost_finite) : weights' = nw
                 /\ num_updates' = num_updates + UpdatesPerRun
                 /\ trace' = trace \o <<"ForwardPass", "ComputeLoss", "UpdateWeights">>
                 /\ pc' = "validate"
                 /\ UNCHANGED err
    /\ UNCHANGED <<flagVars, dataVars, prepVars, init_weights, feed_dict, epoch,
                   metric_args, extra_calls, testVars>>

\* Line 332: roc_curr, ap_curr = get_roc_score(val_edges, val_edges_false),
\* then the loop variable advances.
Validate ==
    /\ pc = "validate"
    /\ \E r \in {get_roc_score(feed_dict, weights, val_edges, val_edges_false)} :
           /\ feed_dict' = r.feed
           /\ last_run' = r.run
           /\ metric_args' = r.args
           /\ err' = r.raised
           /\ pc' = IF r.raised # "none" THEN "error" ELSE "loop"
    /\ epoch' = epoch + 1
    /\ trace' = Append(trace, "Evaluate")
    /\ UNCHANGED <<flagVars, dataVars, prepVars, weights, init_weights,
                   num_updates, extra_calls, testVars>>

\* Lines 326, 340: range(FLAGS.epochs) is exhausted.
LoopExit ==
    /\ pc = "loop"
    /\ ~LoopContinues(epoch, FLAGS_epochs)
    /\ pc' = "test"
    /\ UNCHANGED <<flagVars, dataVars, prepVars, weights, init_weights, feed_dict,
                   epoch, num_updates, last_run, metric_args, trace, extra_calls, err, testVars>>

\* Line 342: roc_score, ap_score = get_roc_score(test_edges, test_edges_false)
Finalize ==
    /\ pc = "test"
    /\ \E r \in {get_roc_score(feed_dict, weights, test_edges, test_edges_false)} :
           /\ feed_dict' = r.feed
           /\ last_run' = r.run
           /\ metric_args' = r.args
           /\ err' = r.raised
           /\ pc' = IF r.raised # "none" THEN "error" ELSE "done"
    /\ trace' = Append(trace, "Finalize")
    /\ UNCHANGED <<flagVars, dataVars, prepVars, weights, init_weights, epoch,
                   num_updates, extra_calls, testVars>>

RunNext ==
    \/ Prepare
    \/ BuildModel
    \/ StartSession
    \/ ConstructFeedDict
    \/ EpochBegin
    \/ TrainStep
    \/ Validate
    \/ LoopExit
    \/ Finalize

Next == RunNext

Init == RunInit /\ TestInit

\* The training script.
Spec == Init /\ [][Next]_vars

\* The script with further calls of the evaluator between its training
\* steps: get_roc_score(val_edges, val_edges_false) at the head of the loop.
ExtraEvaluate ==
    /\ pc = "loop"
    /\ extra_calls < MaxExtraCalls
    /\ \E r \in {get_roc_score(feed_dict, weights, val_edges, val_edges_false)} :
           /\ feed_dict' = r.feed
           /\ last_run' = r.run
           /\ metric_args' = r.args
           /\ err' = r.raised
           /\ pc' = IF r.raised # "none" THEN "error" ELSE "loop"
    /\ extra_calls' = extra_calls + 1
    /\ UNCHANGED <<flagVars, dataVars, prepVars, weights, init_weights, epoch,
                   num_updates, trace, testVars>>

CallsNext ==
    \/ RunNext
    \/ ExtraEvaluate

\* The evaluator's extra calls are explored on one data set.
CallsInit == InitWith((-1)..MaxEpochs, DropoutRates, {PathDataSet}) /\ TestInit

SpecCalls == CallsInit /\ [][CallsNext]_vars

\* The script on edge lists of any lengths, the negative list possibly
\* holding a true edge: the evaluator as a function of its two arguments.
PosLists == { <<<<1, 2>>>>, <<<<1, 2>>, <<3, 4>>>> }

NegLists == { <<>>, <<<<1, 3>>>>, <<<<1, 3>>, <<2, 4>>>>, <<<<2, 3>>>> }

EvalDataSets ==
    { [adj |-> AdjOf(4, {<<1, 2>>, <<2, 3>>, <<3, 4>>}),
       adj_train |-> AdjOf(4, {<<2, 3>>}),
       val_edges |-> vp, val_edges_false |-> vn,
       test_edges |-> tp, test_edges_false |-> tn] :
        vp \in PosLists, vn \in NegLists, tp \in PosLists, tn \in NegLists }

EvalInit == InitWith({0, 1}, {0}, EvalDataSets) /\ TestInit

SpecEval == EvalInit /\ [][Next]_vars

\* The layer tests, run beside a script that has not started.
FixedRunInit == InitWith({0}, {0}, {PathDataSet})

LayersInit == FixedRunInit /\ TestInit

SpecLayers == LayersInit /\ [][TestNext]_vars

\* ======================================================================
\* Properties
\* ======================================================================
\* The number of times the loop body runs: range(n) is empty for n <= 0.
EpochCount == IF FLAGS_epochs < 0 THEN 0 ELSE FLAGS_epochs

RECURSIVE EpochSteps(_)
EpochSteps(n) ==
    IF n = 0 THEN <<>>
    ELSE <<"ForwardPass", "ComputeLoss", "UpdateWeights", "Evaluate">> \o EpochSteps(n - 1)

ExpectedTrace(n) == <<"Init">> \o EpochSteps(n) \o <<"Finalize">>

IsPrefix(s, t) == Len(s) <= Len(t) /\ SubSeq(t, 1, Len(s)) = s

LastStep == IF trace = <<>> THEN "none" ELSE trace[Len(trace)]

\* C1: the steps of a run are, in this order, Init, then ForwardPass,
\* ComputeLoss, UpdateWeights, Evaluate for each epoch, then one Finalize:
\* at every moment the steps taken are a prefix of that sequence (so no test
\* evaluation precedes the last epoch and no epoch follows it), and a run
\* that ends normally has taken all of them.
C1_TrainingSequence ==
    /\ IsPrefix(trace, ExpectedTrace(EpochCount))
    /\ pc = "done" => trace = ExpectedTrace(EpochCount)
    /\ pc \in {"train", "validate"} => LastStep # "Finalize"

C1_Witness ==
    /\ pc = "done"
    /\ FLAGS_epochs = 2
    /\ trace = ExpectedTrace(2)

\* C2: for n >= 0 configured epochs, one weight update is applied per epoch:
\* at the head of the loop as many as epochs are over, and exactly n when
\* the test evaluation runs; for n = 0 the weights are still the initial
\* ones and the test predictions are those the initial weights give.
C2_OneUpdatePerEpoch ==
    FLAGS_epochs >= 0 =>
      /\ pc \in {"loop", "test"} => num_updates = epoch
      /\ LastStep = "Finalize" =>
           /\ num_updates = FLAGS_epochs
           /\ FLAGS_epochs = 0 =>
                /\ weights = init_weights
                /\ metric_args.called
                /\ metric_args.preds =
                     get_roc_score(feed_dict, init_weights,
                                   test_edges, test_edges_false).args.preds

C2_Witness ==
    /\ LastStep = "Finalize"
    /\ pc = "done"
    /\ FLAGS_epochs = 2
    /\ num_updates = 2
    /\ weights # init_weights

\* C3: the labels handed to the metrics are one per prediction, in the
\* order of the predictions: a 1 for each positive edge, then a 0 for each
\* negative edge, whatever the adjacency holds at a negative edge.
C3_LabelsMatchPredictions ==
    metric_args.called =>
      /\ Len(metric_args.labels) = Len(metric_args.preds)
      /\ Len(metric_args.preds) = metric_args.n_pos + metric_args.n_neg
      /\ \A k \in 1..Len(metric_args.labels) :
           metric_args.labels[k] = IF k <= metric_args.n_pos THEN 1 ELSE 0

\* The steps that call the evaluator: Validate is the only action enabled
\* at "validate", Finalize the only one at "test", and ExtraEvaluate the
\* only one that counts extra_calls.
EvaluatorStep == pc \in {"validate", "test"} \/ extra_calls' # extra_calls

\* The steps of TrainStep, the only action enabled at "train".
TrainingStep == pc = "train"

\* C4 as claimed: a call of the evaluator leaves the feed dictionary (its
\* dropout entry included), the weights, the adjacency and the edge sets
\* unchanged.
C4_EvaluatorPure ==
    [][EvaluatorStep =>
         /\ feed_dict' = feed_dict
         /\ weights' = weights
         /\ UNCHANGED <<dataVars, prepVars>>]_vars

\* C4 as amended: a call of the evaluator changes, of all this, only the
\* dropout entry of the feed dictionary, which it sets to 0; and every
\* training step runs with the dictionary construct_feed_dict built plus
\* the configured dropout rate, however many evaluator calls came before.
C4_EvaluatorWritesOnlyDropout ==
    [][/\ EvaluatorStep =>
            /\ DOMAIN feed_dict' = (DOMAIN feed_dict) \cup {"dropout"}
            /\ feed_dict'["dropout"] = 0
            /\ \A k \in (DOMAIN feed_dict) \ {"dropout"} : feed_dict'[k] = feed_dict[k]
            /\ weights' = weights
            /\ UNCHANGED <<dataVars, prepVars>>
       /\ TrainingStep =>
            feed_dict = DictUpdate(construct_feed_dict(adj_norm, adj_label, features),
                                   "dropout", FLAGS_dropout)]_vars

C4_Witness ==
    /\ pc = "train"
    /\ extra_calls = 2
    /\ epoch = 1
    /\ FLAGS_dropout = 50
    /\ last_run.fetch = "embeddings"
    /\ feed_dict["dropout"] = 50

\* C5: once a run of the graph has computed a non-finite value in the
\* sparse layer's output, the run has failed with NumericalInstability.
C5_FailsFastOnNonFinite ==
    (last_run.fetch # "none" /\ ~last_run.h1_finite) =>
        (pc = "error" /\ err = "NumericalInstability")

\* C6: with a negative number of epochs or a dropout rate of 1 or more the
\* run is rejected before anything is built, updated or evaluated.
InvalidConfiguration == FLAGS_epochs < 0 \/ FLAGS_dropout >= 100

C6_InvalidConfigurationRejected ==
    InvalidConfiguration =>
      /\ pc \in {"start", "prepared", "error"}
      /\ num_updates = 0
      /\ last_run = NoRun

\* C7 as claimed: the labels of the loss are the flattened original
\* adjacency, the matrix num_edges is counted from.
C7_LabelsAreOriginalAdjacency ==
    "adj_orig" \in DOMAIN feed_dict =>
      /\ num_edges = MatSum(adj)
      /\ LossLabels(feed_dict) = Flatten(adj)

\* C7 as amended: the labels of the loss are the flattened training
\* adjacency with the identity added (entry (i, j) is adj_train[i][j], plus
\* 1 on the diagonal), while num_edges is counted from the original adjacency.
C7_LabelsAreTrainAdjacencyPlusIdentity ==
    "adj_orig" \in DOMAIN feed_dict =>
      /\ num_edges = MatSum(adj)
      /\ Len(LossLabels(feed_dict)) = num_nodes * num_nodes
      /\ \A i, j \in 1..num_nodes :
           LossLabels(feed_dict)[(i - 1) * num_nodes + j] =
             adj_train[i][j] + (IF i = j THEN 1 ELSE 0)

C7_Witness ==
    /\ pc = "validate"
    /\ num_updates = 1
    /\ LossLabels(feed_dict) # Flatten(adj)
    /\ LossLabels(feed_dict) = Flatten(AdjLabel(adj_train))

\* The dot product of rows i and j of Z, in plain integer arithmetic.
RECURSIVE RowDotUpTo(_, _, _, _)
RowDotUpTo(Z, i, j, k) ==
    IF k = 0 THEN 0 ELSE RowDotUpTo(Z, i, j, k - 1) + Z[i][k] * Z[j][k]

RowDot(Z, i, j) == RowDotUpTo(Z, i, j, NumCols(Z))

\* C8: called on an N x d matrix Z with identity activation and dropout 0,
\* the decoder returns N * N numbers, the one at row-major place (i, j)
\* being the dot product of rows i and j of Z; the result is the same with
\* i and j swapped; on the embeddings of test_decoder it is the expected
\* vector of that test.
C8_DecoderIsRowDotProducts ==
    (tpc = "called" /\ tlayer.kind = "decoder") =>
      LET N == NumRows(tinput)
      IN  /\ Len(toutput) = N * N
          /\ \A i, j \in 1..N :
               /\ toutput[(i - 1) * N + j] = RowDot(tinput, i, j)
               /\ toutput[(i - 1) * N + j] = toutput[(j - 1) * N + i]
          /\ tinput = TestEmbeddings => toutput = <<1, 1, 0, 1, 1, 0, 0, 0, 0>>

C8_Witness ==
    /\ tpc = "called"
    /\ tlayer.kind = "decoder"
    /\ tinput = TestEmbeddings
    /\ toutput = <<1, 1, 0, 1, 1, 0, 0, 0, 0>>

\* Entry (i, j) of A * (X * W), in plain integer arithmetic.
RECURSIVE XWUpTo(_, _, _, _, _)
XWUpTo(X, W, k, j, l) ==
    IF l = 0 THEN 0 ELSE XWUpTo(X, W, k, j, l - 1) + X[k][l] * W[l][j]

RECURSIVE AXWUpTo(_, _, _, _, _, _)
AXWUpTo(A, X, W, i, j, k) ==
    IF k = 0 THEN 0
    ELSE AXWUpTo(A, X, W, i, j, k - 1) + A[i][k] * XWUpTo(X, W, k, j, NumCols(X))

\* C9: called with dropout 0 on an input X, a convolution layer of either
\* kind returns relu(A * (X * W)), W being the weights last handed to
\* set_weights; on the data of test_propagate_node_state and of
\* test_apply_convolution it returns the expected results of those tests.
C9_ConvolutionIsActOfAXW ==
    (tpc = "called" /\ tlayer.kind \in {"sparse", "dense"}) =>
      /\ NumRows(toutput) = NumRows(tlayer.adj)
      /\ NumCols(toutput) = NumCols(tinstalled)
      /\ \A i \in 1..NumRows(toutput), j \in 1..NumCols(toutput) :
           LET v == AXWUpTo(tlayer.adj, tinput, tinstalled, i, j, NumCols(tlayer.adj))
           IN  toutput[i][j] = IF v > 0 THEN v ELSE 0
      /\ (tlayer.kind = "sparse" /\ tlayer.adj = TestAdj
            /\ tinput = Identity(NumTestNodes) /\ tinstalled = TestWeightsSparse)
           => toutput = <<<<0, 1>>, <<1, 0>>, <<0, 0>>>>
      /\ (tlayer.kind = "dense" /\ tlayer.adj = TestAdj
            /\ tinput = TestNodeStateDense /\ tinstalled = TestWeightsDense)
           => toutput = <<<<0, 1>>, <<0, 1>>, <<0, 0>>>>

C9_Witness ==
    /\ tpc = "called"
    /\ tlayer.kind = "sparse"
    /\ tlayer.adj = TestAdj
    /\ tinput = Identity(NumTestNodes)
    /\ tinstalled = TestWeightsSparse
    /\ toutput = <<<<0, 1>>, <<1, 0>>, <<0, 0>>>>

\* C10: every training run of the graph was made with the dropout entry at
\* the configured rate and every evaluation run with it at 0, however many
\* evaluator calls were made in between; and once the feed dictionary is
\* constructed its features, adjacency and label entries never change.
FeedConstructed == "features" \in DOMAIN feed_dict

C10_DropoutPerPhase ==
    /\ [](/\ last_run.fetch = "opt_op" => last_run.dropout = FLAGS_dropout
          /\ last_run.fetch = "embeddings" => last_run.dropout = 0)
    /\ [][/\ TrainingStep => ("dropout" \in DOMAIN feed_dict
                             /\ feed_dict["dropout"] = FLAGS_dropout)
          /\ FeedConstructed =>
               /\ feed_dict'["features"] = feed_dict["features"]
               /\ feed_dict'["adj"] = feed_dict["adj"]
               /\ feed_dict'["adj_orig"] = feed_dict["adj_orig"]]_vars

C10_Witness ==
    /\ last_run.fetch = "opt_op"
    /\ last_run.dropout = 50
    /\ FLAGS_dropout = 50
    /\ num_updates = 2
    /\ extra_calls = 2

====
